---- MODULE Spec2Model ----
(***************************************************************************)
(* A model of app.py of retail-dashboard: the module-level load of the     *)
(* three tables (households, transactions, products), the alias            *)
(* resolution and key coercion, and the /dashboard and /search handlers    *)
(* with the joins and aggregations they compute.                           *)
(*                                                                         *)
(* Text (column labels, CSV cells, commodity names, dates) is a sequence   *)
(* of ASCII codes, so that strip, upper, string comparison and parsing are *)
(* computed as Python and pandas compute them.  A DataFrame is a record    *)
(*   [columns |-> sequence of labels,                                      *)
(*    dtypes  |-> label -> "object" | "int64" | "float64" | "datetime64",  *)
(*    rows    |-> sequence of functions label -> cell].                    *)
(***************************************************************************)
EXTENDS Integers, Sequences, FiniteSets, TLC

VARIABLES pc, error, blob, df_house, df_tx, df_prod,
          merged, rows, monthly, brand_counts, organic_counts,
          top_commodities, pivot, pair_counter, top_pairs, resp, flashed

vars == <<pc, error, blob, df_house, df_tx, df_prod,
          merged, rows, monthly, brand_counts, organic_counts,
          top_commodities, pivot, pair_counter, top_pairs, resp, flashed>>

tables == <<df_house, df_tx, df_prod>>

locals == <<merged, rows, monthly, brand_counts, organic_counts,
            top_commodities, pivot, pair_counter, top_pairs>>

----------------------------------------------------------------------------
(* Bounds of the model. *)

\* rows of the transactions CSV in the serving specifications
MaxTx == 2
\* rows of the transactions CSV in the start-up specification
MaxBootTx == 1

----------------------------------------------------------------------------
(* Column labels used by the code, as ASCII. *)

HSHD_NUM == <<72, 83, 72, 68, 95, 78, 85, 77>>
BASKET_NUM == <<66, 65, 83, 75, 69, 84, 95, 78, 85, 77>>
PRODUCT_NUM == <<80, 82, 79, 68, 85, 67, 84, 95, 78, 85, 77>>
PURCHASE_ == <<80, 85, 82, 67, 72, 65, 83, 69, 95>>
PURCHASE_DATE == <<80, 85, 82, 67, 72, 65, 83, 69, 95, 68, 65, 84, 69>>
DATE == <<68, 65, 84, 69>>
SPEND == <<83, 80, 69, 78, 68>>
DEPARTMENT == <<68, 69, 80, 65, 82, 84, 77, 69, 78, 84>>
COMMODITY == <<67, 79, 77, 77, 79, 68, 73, 84, 89>>
BRAND_TY == <<66, 82, 65, 78, 68, 95, 84, 89>>
BRAND_TYPE == <<66, 82, 65, 78, 68, 95, 84, 89, 80, 69>>
ORGANIC == <<79, 82, 71, 65, 78, 73, 67>>
\* pandas' suffixes for non-key columns both sides of a merge have
SUFFIX_X == <<95, 120>>
SUFFIX_Y == <<95, 121>>

----------------------------------------------------------------------------
(* Text. *)

Range(s) == {s[i] : i \in DOMAIN s}

IsSpace(ch) == ch \in {32, 9, 10, 13}

RECURSIVE LStrip(_)
LStrip(s) == IF s # <<>> /\ IsSpace(Head(s)) THEN LStrip(Tail(s)) ELSE s

RECURSIVE RStrip(_)
RStrip(s) ==
    IF s # <<>> /\ IsSpace(s[Len(s)]) THEN RStrip(SubSeq(s, 1, Len(s) - 1)) ELSE s

\* str.strip()
Strip(s) == RStrip(LStrip(s))

\* str.upper(), on ASCII
Upper(s) == [i \in DOMAIN s |-> IF s[i] >= 97 /\ s[i] <= 122 THEN s[i] - 32 ELSE s[i]]

\* Python's < on str: by code point, a proper prefix first
StrLess(a, b) ==
    \E i \in 1..Len(b) :
        /\ \A j \in 1..(i - 1) : j <= Len(a) /\ a[j] = b[j]
        /\ (i > Len(a) \/ a[i] < b[i])

IsDigit(ch) == ch >= 48 /\ ch <= 57

IsDigits(s) == s # <<>> /\ \A i \in DOMAIN s : IsDigit(s[i])

RECURSIVE DecValue(_)
DecValue(s) ==
    IF s = <<>> THEN 0 ELSE 10 * DecValue(SubSeq(s, 1, Len(s) - 1)) + (s[Len(s)] - 48)

\* The missing marker of a numeric column (NaN).  Every number of the model's
\* inputs is a natural, so -1 is none of them.
NaN == -1

\* The missing marker of a datetime64 column (NaT), and of its monthly period.
NaT == [y |-> 0, m |-> 0, d |-> 0]
NaTPeriod == [y |-> 0, m |-> 0]

----------------------------------------------------------------------------
(* DataFrames. *)

NoFrame == [columns |-> <<>>, dtypes |-> <<>>, rows |-> <<>>]

Has(df, c) == c \in Range(df.columns)

IsNumeric(dt) == dt \in {"int64", "float64"}

\* pd.read_csv of a blob's bytes: the header row names the columns; a column
\* whose every cell is a number is numeric, any other keeps its text.
ReadCsv(b) ==
    LET labels == Range(b.header)
        ix == [c \in labels |-> CHOOSE j \in DOMAIN b.header : b.header[j] = c]
        num == {c \in labels : b.rows # <<>> /\ \A i \in DOMAIN b.rows :
                                   IsDigits(b.rows[i][ix[c]])}
    IN  [columns |-> b.header,
         dtypes  |-> [c \in labels |-> IF c \in num THEN "int64" ELSE "object"],
         rows    |-> [i \in DOMAIN b.rows |->
                        [c \in labels |-> IF c \in num THEN DecValue(b.rows[i][ix[c]])
                                                      ELSE b.rows[i][ix[c]]]]]

\* df.columns = [f[c] for c in df.columns], f a function on the labels
MapColumns(df, f) ==
    LET cols == [i \in DOMAIN df.columns |-> f[df.columns[i]]]
        old == [c2 \in Range(cols) |-> CHOOSE c \in Range(df.columns) : f[c] = c2]
    IN  [columns |-> cols,
         dtypes  |-> [c2 \in Range(cols) |-> df.dtypes[old[c2]]],
         rows    |-> [i \in DOMAIN df.rows |->
                        [c2 \in Range(cols) |-> df.rows[i][old[c2]]]]]

\* df.columns.str.strip().str.upper()
NormalizeColumns(df) == MapColumns(df, [c \in Range(df.columns) |-> Upper(Strip(c))])

\* load_csv, after the download: read, then strip and upper-case the labels
load_csv(b) == NormalizeColumns(ReadCsv(b))

\* df.rename(columns={from: to}, inplace=True)
Rename(df, from, to) ==
    MapColumns(df, [c \in Range(df.columns) |-> IF c = from THEN to ELSE c])

\* As ResolveTxAlias, but a table with neither alias passes as it is (the
\* else branch does not raise).
ResolveTxAliasNoRaise(df) ==
    IF Has(df, PURCHASE_) THEN [ok |-> TRUE, df |-> Rename(df, PURCHASE_, DATE)]
    ELSE IF Has(df, PURCHASE_DATE)
         THEN [ok |-> TRUE, df |-> Rename(df, PURCHASE_DATE, DATE)]
         ELSE [ok |-> TRUE, df |-> df]

\* The transaction table's date column: PURCHASE_, else PURCHASE_DATE, else
\* RuntimeError.
ResolveTxAlias(df) ==
    IF Has(df, PURCHASE_) THEN [ok |-> TRUE, df |-> Rename(df, PURCHASE_, DATE)]
    ELSE IF Has(df, PURCHASE_DATE)
         THEN [ok |-> TRUE, df |-> Rename(df, PURCHASE_DATE, DATE)]
         ELSE [ok |-> FALSE, df |-> df]

\* The product table's brand column: BRAND_TY becomes BRAND_TYPE, if there.
ResolveProdAlias(df) ==
    IF Has(df, BRAND_TY) THEN Rename(df, BRAND_TY, BRAND_TYPE) ELSE df

\* pd.to_numeric(cell, errors='coerce') of a text cell
ToNumericCell(s) == IF IsDigits(s) THEN DecValue(s) ELSE NaN

\* df[c] = pd.to_numeric(df[c], errors='coerce')
ToNumeric(df, c) ==
    IF IsNumeric(df.dtypes[c]) THEN df
    ELSE LET cells == [i \in DOMAIN df.rows |-> ToNumericCell(df.rows[i][c])]
             dt == IF cells # <<>> /\ \A i \in DOMAIN cells : cells[i] # NaN
                   THEN "int64" ELSE "float64"
         IN  [columns |-> df.columns,
              dtypes  |-> [df.dtypes EXCEPT ![c] = dt],
              rows    |-> [i \in DOMAIN df.rows |-> [df.rows[i] EXCEPT ![c] = cells[i]]]]

----------------------------------------------------------------------------
(* merge and sort_values. *)

\* Whether two key cells are one join key.  pandas' merge compares the key
\* columns by value and takes two missing keys (NaN) for the same key.
KeysMatch(a, b) == a = b

\* left.merge(right, on=on): the inner join, in the order of the left rows and,
\* for one left row, of the right rows; a non-key label both sides have gets
\* the suffixes _x and _y.
Merge(left, right, on) ==
    LET LC == Range(left.columns)
        RC == Range(right.columns) \ {on}
        lname(c) == IF c \in RC THEN c \o SUFFIX_X ELSE c
        rname(c) == IF c \in LC THEN c \o SUFFIX_Y ELSE c
        rcols == SelectSeq(right.columns, LAMBDA c : c # on)
        cols == [i \in DOMAIN left.columns |-> lname(left.columns[i])]
                \o [i \in DOMAIN rcols |-> rname(rcols[i])]
        n == Len(left.rows)
        m == Len(right.rows)
        cross == [k \in 1..(n * m) |-> <<((k - 1) \div m) + 1, ((k - 1) % m) + 1>>]
        match == SelectSeq(cross, LAMBDA p :
                     KeysMatch(left.rows[p[1]][on], right.rows[p[2]][on]))
        fromLeft == {lname(c) : c \in LC}
        lorig == [c2 \in fromLeft |-> CHOOSE c \in LC : lname(c) = c2]
        rorig == [c2 \in Range(cols) \ fromLeft |-> CHOOSE c \in RC : rname(c) = c2]
    IN  [columns |-> cols,
         dtypes  |-> [c2 \in Range(cols) |->
                        IF c2 = on
                        THEN (IF left.dtypes[on] = "int64" /\ right.dtypes[on] = "int64"
                              THEN "int64" ELSE "float64")
                        ELSE IF c2 \in fromLeft THEN left.dtypes[lorig[c2]]
                                                ELSE right.dtypes[rorig[c2]]],
         rows    |-> [k \in DOMAIN match |->
                        [c2 \in Range(cols) |->
                            IF c2 \in fromLeft THEN left.rows[match[k][1]][lorig[c2]]
                                               ELSE right.rows[match[k][2]][rorig[c2]]]]]

\* df[df[c] == v]
Filter(df, c, v) == [df EXCEPT !.rows = SelectSeq(df.rows, LAMBDA r : r[c] = v)]

\* The order of the cells of one column: numbers by value with NaN last
\* (na_position='last'), text as Python compares str.
CellLess(dt, x, y) ==
    IF IsNumeric(dt) THEN x # NaN /\ (y = NaN \/ x < y) ELSE StrLess(x, y)

\* Row a sorts before row b: the first column of `by` they differ in decides.
RowLess(dts, by, a, b) ==
    \E k \in DOMAIN by :
        /\ \A j \in 1..(k - 1) : a[by[j]] = b[by[j]]
        /\ CellLess(dts[by[k]], a[by[k]], b[by[k]])

\* A stable sort of the rows: each row goes behind the rows not after it.
RECURSIVE SortRows(_, _, _)
SortRows(dts, by, rs) ==
    IF rs = <<>> THEN <<>>
    ELSE LET s == SortRows(dts, by, SubSeq(rs, 1, Len(rs) - 1))
             r == rs[Len(rs)]
             k == Cardinality({i \in DOMAIN s : ~RowLess(dts, by, r, s[i])})
         IN  SubSeq(s, 1, k) \o <<r>> \o SubSeq(s, k + 1, Len(s))

\* df.sort_values(by)
sort_values(df, by) == [df EXCEPT !.rows = SortRows(df.dtypes, by, df.rows)]

\* As SortKeys, without DEPARTMENT.
SortKeysNoDepartment == <<HSHD_NUM, BASKET_NUM, DATE, PRODUCT_NUM, COMMODITY>>

\* The sort keys of the household lookup.
SortKeys == <<HSHD_NUM, BASKET_NUM, DATE, PRODUCT_NUM, DEPARTMENT, COMMODITY>>

----------------------------------------------------------------------------
(* Dates. *)

IsLeap(y) == (y % 4 = 0 /\ y % 100 # 0) \/ y % 400 = 0

DaysIn(y, m) ==
    IF m = 2 THEN (IF IsLeap(y) THEN 29 ELSE 28)
    ELSE IF m \in {4, 6, 9, 11} THEN 30 ELSE 31

\* pd.to_datetime(cell, errors='coerce') of a text cell, for the ISO form
\* YYYY-MM-DD: its date, or NaT when the text is no date of the calendar.
to_datetime(s) ==
    IF /\ Len(s) = 10
       /\ s[5] = 45 /\ s[8] = 45
       /\ \A i \in {1, 2, 3, 4, 6, 7, 9, 10} : IsDigit(s[i])
    THEN LET y == DecValue(SubSeq(s, 1, 4))
             m == DecValue(SubSeq(s, 6, 7))
             d == DecValue(SubSeq(s, 9, 10))
         IN  IF m >= 1 /\ m <= 12 /\ d >= 1 /\ d <= DaysIn(y, m)
             THEN [y |-> y, m |-> m, d |-> d] ELSE NaT
    ELSE NaT

\* .dt.to_period('M')
to_period(d) == IF d = NaT THEN NaTPeriod ELSE [y |-> d.y, m |-> d.m]

PeriodLess(p, q) == p.y < q.y \/ (p.y = q.y /\ p.m < q.m)

\* merged['DATE'] = pd.to_datetime(merged['DATE'], errors='coerce')
ParseDates(df) ==
    [columns |-> df.columns,
     dtypes  |-> [df.dtypes EXCEPT ![DATE] = "datetime64"],
     rows    |-> [i \in DOMAIN df.rows |->
                    [df.rows[i] EXCEPT ![DATE] = to_datetime(df.rows[i][DATE])]]]

----------------------------------------------------------------------------
(* Aggregations of the dashboard. *)

RECURSIVE SumSeq(_)
SumSeq(s) == IF s = <<>> THEN 0 ELSE Head(s) + SumSeq(Tail(s))

\* The cells of column c, in row order.
Column(rs, c) == [i \in DOMAIN rs |-> rs[i][c]]

\* A set of periods in ascending order (groupby sorts its keys).
SortedPeriods(S) ==
    [i \in 1..Cardinality(S) |->
        CHOOSE x \in S : Cardinality({z \in S : PeriodLess(z, x)}) = i - 1]

\* A set of str in ascending order.
SortedText(S) ==
    [i \in 1..Cardinality(S) |->
        CHOOSE x \in S : Cardinality({z \in S : StrLess(z, x)}) = i - 1]

\* As PeriodKeys, with the missing key kept as a group (dropna=False).
PeriodKeysKeepNaT(rs) == {to_period(rs[i][DATE]) : i \in DOMAIN rs}

\* The keys of a groupby over a datetime-derived key: the missing key (NaT)
\* makes no group (dropna).
PeriodKeys(rs) == {to_period(rs[i][DATE]) : i \in DOMAIN rs} \ {NaTPeriod}

\* merged.groupby(merged['DATE'].dt.to_period('M'))['SPEND'].sum().reset_index()
MonthlySpend(df) ==
    LET keys == SortedPeriods(PeriodKeys(df.rows))
    IN  [i \in DOMAIN keys |->
            [DATE  |-> keys[i],
             SPEND |-> SumSeq(Column(SelectSeq(df.rows,
                           LAMBDA r : to_period(r[DATE]) = keys[i]), SPEND))]]

\* The distinct values of a sequence, in the order of their first occurrence.
RECURSIVE FirstSeen(_)
FirstSeen(s) ==
    IF s = <<>> THEN <<>>
    ELSE LET d == FirstSeen(SubSeq(s, 1, Len(s) - 1))
         IN  IF s[Len(s)] \in Range(d) THEN d ELSE Append(d, s[Len(s)])

\* Items [.., n |-> count] by descending count, items of one count in the
\* order they had (sorted(..., reverse=True) and a stable descending argsort).
RECURSIVE SortDescByCount(_)
SortDescByCount(items) ==
    IF items = <<>> THEN <<>>
    ELSE LET s == SortDescByCount(SubSeq(items, 1, Len(items) - 1))
             r == items[Len(items)]
             k == Cardinality({i \in DOMAIN s : s[i].n >= r.n})
         IN  SubSeq(s, 1, k) \o <<r>> \o SubSeq(s, k + 1, Len(s))

\* df[c].value_counts(): each value with its number of rows, most frequent
\* first.
value_counts(df, c) ==
    LET col == Column(df.rows, c)
        seen == FirstSeen(col)
    IN  SortDescByCount([i \in DOMAIN seen |->
            [value |-> seen[i],
             n     |-> Cardinality({j \in DOMAIN col : col[j] = seen[i]})]])

\* .head(n) and [:n]
HeadN(s, n) == SubSeq(s, 1, IF Len(s) < n THEN Len(s) ELSE n)

\* The number of commodities of the trend: head(5).
TopCommodityN == 5

\* The number of pairs of the cross-sell view: most_common(5).
TopPairN == 5

\* merged['COMMODITY'].value_counts().head(5).index
TopCommodities(df) ==
    LET vc == HeadN(value_counts(df, COMMODITY), TopCommodityN)
    IN  [i \in DOMAIN vc |-> vc[i].value]

\* filtered.groupby(['MONTH', 'COMMODITY'])['SPEND'].sum().unstack().fillna(0):
\* one row per month and one column per commodity among the groups, both
\* ascending, and 0 where a month and a commodity have no group.
Pivot(df, top) ==
    LET filtered == SelectSeq(df.rows, LAMBDA r : r[COMMODITY] \in Range(top))
        groups == {<<to_period(filtered[i][DATE]), filtered[i][COMMODITY]>> :
                      i \in DOMAIN filtered}
        kept == {g \in groups : g[1] # NaTPeriod}
        index == SortedPeriods({g[1] : g \in kept})
        columns == SortedText({g[2] : g \in kept})
    IN  [index   |-> index,
         columns |-> columns,
         cell    |-> [g \in Range(index) \X Range(columns) |->
                        SumSeq(Column(SelectSeq(filtered, LAMBDA r :
                            to_period(r[DATE]) = g[1] /\ r[COMMODITY] = g[2]), SPEND))]]

\* The keys of groupby(['HSHD_NUM', 'BASKET_NUM']): a row with a missing key
\* is in no group; ascending.
BasketKeys(df) ==
    LET S == {k \in {<<df.rows[i][HSHD_NUM], df.rows[i][BASKET_NUM]>> : i \in DOMAIN df.rows} :
                 k[1] # NaN /\ k[2] # NaN}
        less(a, b) == a[1] < b[1] \/ (a[1] = b[1] /\ a[2] < b[2])
    IN  [i \in 1..Cardinality(S) |->
            CHOOSE x \in S : Cardinality({z \in S : less(z, x)}) = i - 1]

\* merged.groupby(['HSHD_NUM', 'BASKET_NUM'])['COMMODITY'].apply(list)
BasketProducts(df) ==
    LET keys == BasketKeys(df)
    IN  [i \in DOMAIN keys |->
            Column(SelectSeq(df.rows, LAMBDA r :
                r[HSHD_NUM] = keys[i][1] /\ r[BASKET_NUM] = keys[i][2]), COMMODITY)]

\* As SetOrders, without the set: list(items), duplicates kept.
ListOrder(items) == {items}

\* list(set(items)): the distinct items in an order the hash of str decides,
\* which differs from process to process: every order.
SetOrders(items) ==
    LET S == Range(items)
    IN  {u \in [1..Cardinality(S) -> S] : Range(u) = S}

\* tuple(sorted((a, b)))
SortedPair(a, b) == IF StrLess(b, a) THEN <<b, a>> ELSE <<a, b>>

\* pair_counter[pair] += 1, on a Counter kept in insertion order
Increment(counter, pair) ==
    IF \E i \in DOMAIN counter : counter[i].pair = pair
    THEN [i \in DOMAIN counter |->
            IF counter[i].pair = pair
            THEN [pair |-> pair, n |-> counter[i].n + 1] ELSE counter[i]]
    ELSE Append(counter, [pair |-> pair, n |-> 1])

\* The index pairs (i, j) of the two loops, in loop order.
LoopPairs(len) ==
    SelectSeq([k \in 1..(len * len) |-> <<((k - 1) \div len) + 1, ((k - 1) % len) + 1>>],
              LAMBDA p : p[1] < p[2])

\* The two loops over one basket's distinct commodities.
RECURSIVE CountPairs(_, _, _)
CountPairs(counter, unique, todo) ==
    IF todo = <<>> THEN counter
    ELSE CountPairs(Increment(counter,
                        SortedPair(unique[Head(todo)[1]], unique[Head(todo)[2]])),
                    unique, Tail(todo))

\* The counters the scan of the baskets can end with, one per choice of the
\* orders of the baskets' sets.
RECURSIVE ScanBaskets(_, _)
ScanBaskets(counter, baskets) ==
    IF baskets = <<>> THEN {counter}
    ELSE UNION {ScanBaskets(CountPairs(counter, u, LoopPairs(Len(u))), Tail(baskets)) :
                   u \in SetOrders(Head(baskets))}

\* pair_counter.most_common(5)
most_common(counter, n) == HeadN(SortDescByCount(counter), n)

----------------------------------------------------------------------------
(* The blobs: the three CSV files of the container. *)

Csv(header, lines) == [ok |-> TRUE, header |-> header, rows |-> lines]

\* A blob that cannot be downloaded or is no CSV: load_csv raises.
Corrupt == [ok |-> FALSE, header |-> <<>>, rows |-> <<>>]

SeqsUpTo(S, n) == UNION {[1..k -> S] : k \in 0..n}

\* Cells: keys, basket numbers and amounts, a cell that is no number, dates
\* (2023-13-01 is no date), names.
T1 == <<49>>
T2 == <<50>>
T3 == <<51>>
T4 == <<52>>
T5 == <<53>>
T7 == <<55>>
TJunk == <<110, 47, 97>>
D_2023_01_15 == <<50, 48, 50, 51, 45, 48, 49, 45, 49, 53>>
D_2023_02_03 == <<50, 48, 50, 51, 45, 48, 50, 45, 48, 51>>
D_2022_12_30 == <<50, 48, 50, 50, 45, 49, 50, 45, 51, 48>>
D_2023_13_01 == <<50, 48, 50, 51, 45, 49, 51, 45, 48, 49>>
MILK == <<77, 73, 76, 75>>
BREAD == <<66, 82, 69, 65, 68>>
EGGS == <<69, 71, 71, 83>>
SODA == <<83, 79, 68, 65>>
DAIRY == <<68, 65, 73, 82, 89>>
BAKERY == <<66, 65, 75, 69, 82, 89>>
DRINKS == <<68, 82, 73, 78, 75, 83>>
NATIONAL == <<78, 65, 84, 73, 79, 78, 65, 76>>
PRIVATE == <<80, 82, 73, 86, 65, 84, 69>>
YES == <<89>>
NO == <<78>>

\* Headers as the files may spell them.
hshd_num_padded == <<32, 104, 115, 104, 100, 95, 110, 117, 109>>
purchase_date_padded == <<112, 117, 114, 99, 104, 97, 115, 101, 95, 100, 97, 116, 101, 32>>
Brand_Ty == <<66, 114, 97, 110, 100, 95, 84, 121>>

\* Transaction lines: HSHD_NUM, BASKET_NUM, date, PRODUCT_NUM, SPEND.
TxLines ==
    { <<T1, T1, D_2023_01_15, T1, T5>>,
      <<T1, T1, D_2023_01_15, T2, T3>>,
      <<T1, T1, D_2023_02_03, T3, T4>>,
      <<T1, T2, D_2022_12_30, T1, T7>>,
      <<T1, T2, D_2023_13_01, T2, T3>>,
      <<TJunk, T1, D_2023_01_15, T2, T4>>,
      <<T2, T1, D_2023_02_03, TJunk, T5>>,
      <<T1, T1, D_2023_01_15, TJunk, T3>> }

TxBlob(dateLabel, lines) ==
    Csv(<<HSHD_NUM, BASKET_NUM, dateLabel, PRODUCT_NUM, SPEND>>, lines)

HouseBlobs ==
    { Csv(<<HSHD_NUM>>, <<<<T1>>, <<T2>>>>),
      Csv(<<hshd_num_padded>>, <<<<T1>>, <<TJunk>>>>),
      Csv(<<HSHD_NUM>>, <<<<TJunk>>, <<T2>>, <<T1>>>>) }

\* Product lines: PRODUCT_NUM, DEPARTMENT, COMMODITY, brand (, ORGANIC).  The
\* second file spells the brand column Brand_Ty, has no ORGANIC column, lists
\* product 1 three times and has a line whose key is no number.
ProdBlobs ==
    { Csv(<<PRODUCT_NUM, DEPARTMENT, COMMODITY, BRAND_TYPE, ORGANIC>>,
          << <<T1, DAIRY, MILK, NATIONAL, NO>>,
             <<T2, BAKERY, BREAD, PRIVATE, YES>>,
             <<T3, DAIRY, EGGS, NATIONAL, YES>> >>),
      Csv(<<PRODUCT_NUM, DEPARTMENT, COMMODITY, Brand_Ty>>,
          << <<T1, DRINKS, BREAD, NATIONAL>>,
             <<T1, DAIRY, EGGS, PRIVATE>>,
             <<T1, DAIRY, BREAD, PRIVATE>>,
             <<TJunk, DRINKS, SODA, PRIVATE>>,
             <<T2, BAKERY, MILK, PRIVATE>>,
             <<T3, BAKERY, EGGS, NATIONAL>> >>) }

\* The blobs of the serving specifications: every file loads.
ServeBlobs ==
    [house : HouseBlobs,
     tx    : {TxBlob(PURCHASE_DATE, l) : l \in SeqsUpTo(TxLines, MaxTx)},
     prod  : ProdBlobs]

\* The blobs of the start-up specification: the headers vary, a file may be
\* corrupt, the transaction file may name its date column DATE already.
BootBlobs ==
    [house : {Csv(<<hshd_num_padded>>, <<<<T1>>, <<TJunk>>>>), Corrupt},
     tx    : {TxBlob(d, l) : d \in {PURCHASE_, purchase_date_padded, DATE},
                             l \in SeqsUpTo(TxLines, MaxBootTx)} \cup {Corrupt},
     prod  : ProdBlobs \cup {Corrupt}]

\* The values of the form field hshd_num.
FormInputs == {T1, T2, T3, TJunk}

----------------------------------------------------------------------------
(* Start-up: the module-level statements, in their order. *)

NoPivot == [index |-> <<>>, columns |-> <<>>, cell |-> <<>>]
NoOrganic == [present |-> FALSE, counts |-> <<>>]
NoResponse == [status |-> 0, body |-> "", hshd |-> 0]

\* The locals of no request.
NoLocals ==
    /\ merged = NoFrame /\ rows = <<>> /\ monthly = <<>> /\ brand_counts = <<>>
    /\ organic_counts = NoOrganic /\ top_commodities = <<>> /\ pivot = NoPivot
    /\ pair_counter = <<>> /\ top_pairs = <<>>

\* The key coercion: the four to_numeric assignments.
CoerceKeys(house, tx, prod) ==
    [df_house |-> ToNumeric(house, HSHD_NUM),
     df_tx    |-> ToNumeric(ToNumeric(tx, HSHD_NUM), PRODUCT_NUM),
     df_prod  |-> ToNumeric(prod, PRODUCT_NUM)]

\* A key column is missing: the assignment raises KeyError.
CoerceRaises(house, tx, prod) ==
    ~(/\ Has(house, HSHD_NUM) /\ Has(tx, HSHD_NUM)
      /\ Has(tx, PRODUCT_NUM) /\ Has(prod, PRODUCT_NUM))

Init ==
    /\ pc = "load_house" /\ error = ""
    /\ blob \in BootBlobs
    /\ df_house = NoFrame /\ df_tx = NoFrame /\ df_prod = NoFrame
    /\ NoLocals /\ resp = NoResponse /\ flashed = ""

Fail(e) ==
    /\ pc' = "failed" /\ error' = e
    /\ UNCHANGED <<blob, locals, resp, flashed>>

\* df_house = load_csv('400_households.csv')
LoadHouse ==
    /\ pc = "load_house"
    /\ IF blob.house.ok
       THEN /\ df_house' = load_csv(blob.house)
            /\ pc' = "load_tx"
            /\ UNCHANGED <<error, blob, df_tx, df_prod, locals, resp, flashed>>
       ELSE Fail("LoadError") /\ UNCHANGED tables

\* df_tx = load_csv('400_transactions.csv')
LoadTx ==
    /\ pc = "load_tx"
    /\ IF blob.tx.ok
       THEN /\ df_tx' = load_csv(blob.tx)
            /\ pc' = "load_prod"
            /\ UNCHANGED <<error, blob, df_house, df_prod, locals, resp, flashed>>
       ELSE Fail("LoadError") /\ UNCHANGED tables

\* df_prod = load_csv('400_products.csv')
LoadProd ==
    /\ pc = "load_prod"
    /\ IF blob.prod.ok
       THEN /\ df_prod' = load_csv(blob.prod)
            /\ pc' = "alias_tx"
            /\ UNCHANGED <<error, blob, df_house, df_tx, locals, resp, flashed>>
       ELSE Fail("LoadError") /\ UNCHANGED tables

\* The date column of the transactions, or RuntimeError.
AliasTx ==
    /\ pc = "alias_tx"
    /\ LET r == ResolveTxAlias(df_tx)
       IN  IF r.ok
           THEN /\ df_tx' = r.df
                /\ pc' = "alias_prod"
                /\ UNCHANGED <<error, blob, df_house, df_prod, locals, resp, flashed>>
           ELSE Fail("RuntimeError") /\ UNCHANGED tables

\* The brand column of the products.
AliasProd ==
    /\ pc = "alias_prod"
    /\ df_prod' = ResolveProdAlias(df_prod)
    /\ pc' = "coerce"
    /\ UNCHANGED <<error, blob, df_house, df_tx, locals, resp, flashed>>

\* The join keys become numbers; then the routes exist and the app serves.
Coerce ==
    /\ pc = "coerce"
    /\ IF CoerceRaises(df_house, df_tx, df_prod)
       THEN Fail("KeyError") /\ UNCHANGED tables
       ELSE LET c == CoerceKeys(df_house, df_tx, df_prod)
            IN  /\ df_house' = c.df_house /\ df_tx' = c.df_tx /\ df_prod' = c.df_prod
                /\ pc' = "ready"
                /\ UNCHANGED <<error, blob, locals, resp, flashed>>

----------------------------------------------------------------------------
(* Requests. *)

ClearLocals ==
    /\ merged' = NoFrame /\ rows' = <<>> /\ monthly' = <<>> /\ brand_counts' = <<>>
    /\ organic_counts' = NoOrganic /\ top_commodities' = <<>> /\ pivot' = NoPivot
    /\ pair_counter' = <<>> /\ top_pairs' = <<>>

Respond(status, body, hshd, flash) ==
    /\ resp' = [status |-> status, body |-> body, hshd |-> hshd]
    /\ flashed' = flash

\* GET /
login ==
    /\ pc = "ready"
    /\ ClearLocals
    /\ Respond(200, "login.html", 0, "")
    /\ UNCHANGED <<pc, error, blob, tables>>

\* GET /dashboard with a session that holds no user
dashboard_anonymous ==
    /\ pc = "ready"
    /\ ClearLocals
    /\ Respond(302, "login", 0, "warning: Please log in first")
    /\ UNCHANGED <<pc, error, blob, tables>>

\* merged = df_tx.merge(df_house, on='HSHD_NUM').merge(df_prod, on='PRODUCT_NUM')
DashboardMerge(house, tx, prod) == Merge(Merge(tx, house, HSHD_NUM), prod, PRODUCT_NUM)

\* As AssignDates, with the dates of the transactions table parsed in place
\* too.
AssignDatesInPlace(frames) ==
    [frames EXCEPT !.merged = ParseDates(frames.merged),
                   !.df_tx = ParseDates(frames.df_tx)]

\* merged['DATE'] = pd.to_datetime(merged['DATE'], errors='coerce'): the parsed
\* column is assigned to the frame the merge made, and to no table.
AssignDates(frames) == [frames EXCEPT !.merged = ParseDates(frames.merged)]

\* The columns the dashboard reads; without one of them the handler raises
\* KeyError and the response is a 500.
DashboardColumns == {DATE, SPEND, BRAND_TYPE, COMMODITY, HSHD_NUM, BASKET_NUM}

AllColumns == Range(df_tx.columns) \cup Range(df_house.columns) \cup Range(df_prod.columns)

\* GET /dashboard with a session that holds a user (the session is the
\* request's cookie)
dashboard ==
    /\ pc = "ready"
    /\ IF ~(DashboardColumns \subseteq AllColumns)
       THEN /\ ClearLocals
            /\ Respond(500, "KeyError", 0, "")
            /\ UNCHANGED tables
       ELSE \E m \in {DashboardMerge(df_house, df_tx, df_prod)} :
            \E f \in {AssignDates([df_house |-> df_house, df_tx |-> df_tx,
                                   df_prod |-> df_prod, merged |-> m])} :
            \E top \in {TopCommodities(f.merged)} :
            \E baskets \in {BasketProducts(f.merged)} :
            \E counter \in ScanBaskets(<<>>, baskets) :
                /\ df_house' = f.df_house /\ df_tx' = f.df_tx /\ df_prod' = f.df_prod
                /\ merged' = f.merged
                /\ rows' = <<>>
                /\ monthly' = MonthlySpend(f.merged)
                /\ brand_counts' = value_counts(f.merged, BRAND_TYPE)
                /\ organic_counts' =
                       IF Has(f.merged, ORGANIC)
                       THEN [present |-> TRUE, counts |-> value_counts(f.merged, ORGANIC)]
                       ELSE NoOrganic
                /\ top_commodities' = top
                /\ pivot' = Pivot(f.merged, top)
                /\ pair_counter' = counter
                /\ top_pairs' = most_common(counter, TopPairN)
                /\ Respond(200, "dashboard.html", 0, "")
    /\ UNCHANGED <<pc, error, blob>>

\* int(request.form['hshd_num']): the number, or -1 for ValueError
PyInt(s) == IF IsDigits(Strip(s)) THEN DecValue(Strip(s)) ELSE -1

\* hh.merge(df_tx, on='HSHD_NUM').merge(df_prod, on='PRODUCT_NUM'), hh the
\* households filtered to h
SearchMerge(house, tx, prod, h) ==
    Merge(Merge(Filter(house, HSHD_NUM, h), tx, HSHD_NUM), prod, PRODUCT_NUM)

\* GET /search
search_get ==
    /\ pc = "ready"
    /\ ClearLocals
    /\ Respond(200, "search.html", 0, "")
    /\ UNCHANGED <<pc, error, blob, tables>>

\* POST /search
search_post ==
    /\ pc = "ready"
    /\ \E text \in FormInputs :
       \E h \in {PyInt(text)} :
         IF h = -1
         THEN /\ ClearLocals
              /\ Respond(302, "search", 0, "danger: Enter a valid Household #")
         ELSE IF ~(Range(SortKeys) \subseteq AllColumns)
         THEN /\ ClearLocals
              /\ Respond(500, "KeyError", 0, "")
         ELSE \E m \in {SearchMerge(df_house, df_tx, df_prod, h)} :
              \E sorted \in {sort_values(m, SortKeys)} :
                  /\ merged' = sorted
                  /\ rows' = sorted.rows
                  /\ monthly' = <<>> /\ brand_counts' = <<>>
                  /\ organic_counts' = NoOrganic /\ top_commodities' = <<>>
                  /\ pivot' = NoPivot /\ pair_counter' = <<>> /\ top_pairs' = <<>>
                  /\ Respond(200, "search_results.html", h,
                             IF sorted.rows = <<>> THEN "warning: No data for Household"
                                                   ELSE "")
    /\ UNCHANGED <<pc, error, blob, tables>>

\* GET /sample-data
sample_data ==
    /\ pc = "ready"
    /\ ClearLocals
    /\ Respond(302, "search", 0, "")
    /\ UNCHANGED <<pc, error, blob, tables>>

Serve == login \/ dashboard_anonymous \/ dashboard \/ search_get \/ search_post \/ sample_data

Next == LoadHouse \/ LoadTx \/ LoadProd \/ AliasTx \/ AliasProd \/ Coerce \/ Serve

Spec == Init /\ [][Next]_vars

\* The serving phase alone, from the tables the start-up leaves: the
\* module-level statements applied in their order to blobs none of them
\* fails on.
InitServe ==
    /\ pc = "ready" /\ error = ""
    /\ blob \in ServeBlobs
    /\ \E house \in {load_csv(blob.house)}, tx \in {load_csv(blob.tx)},
          prod \in {load_csv(blob.prod)} :
         \E tx2 \in {ResolveTxAlias(tx).df}, prod2 \in {ResolveProdAlias(prod)} :
           \E c \in {CoerceKeys(house, tx2, prod2)} :
              df_house = c.df_house /\ df_tx = c.df_tx /\ df_prod = c.df_prod
    /\ NoLocals /\ resp = NoResponse /\ flashed = ""

NextLookup == search_get \/ search_post \/ sample_data

SpecLookup == InitServe /\ [][NextLookup]_vars

NextDashboard == login \/ dashboard_anonymous \/ dashboard

SpecDashboard == InitServe /\ [][NextDashboard]_vars

----------------------------------------------------------------------------
(* The claims. *)

Dashboarded == resp.body = "dashboard.html"
LookedUp == resp.body = "search_results.html"

\* C1 (stated as claimed; the code violates it): no row of the dashboard's
\* joined table has a missing HSHD_NUM or PRODUCT_NUM, also when both sides of
\* a join have rows with a missing key.
C1_NoMissingKeyJoined ==
    Dashboarded =>
        \A i \in DOMAIN merged.rows :
            merged.rows[i][HSHD_NUM] # NaN /\ merged.rows[i][PRODUCT_NUM] # NaN

\* The (household, transaction, product) triples of household h, a missing
\* key being equal to no key.
Triples(h) ==
    {t \in (DOMAIN df_house.rows) \X (DOMAIN df_tx.rows) \X (DOMAIN df_prod.rows) :
        /\ df_house.rows[t[1]][HSHD_NUM] = h
        /\ df_tx.rows[t[2]][HSHD_NUM] = h
        /\ df_tx.rows[t[2]][PRODUCT_NUM] # NaN
        /\ df_tx.rows[t[2]][PRODUCT_NUM] = df_prod.rows[t[3]][PRODUCT_NUM]}

\* C2 (stated as claimed; the code violates it): the lookup of h returns one
\* row per triple with household.HSHD_NUM = transaction.HSHD_NUM = h and
\* transaction.PRODUCT_NUM = product.PRODUCT_NUM, every row has HSHD_NUM = h,
\* and no triple gives the empty sequence.
C2_LookupExactTriples ==
    LookedUp =>
        /\ \A i \in DOMAIN rows : rows[i][HSHD_NUM] = resp.hshd
        /\ Len(rows) = Cardinality(Triples(resp.hshd))
        /\ \A t \in Triples(resp.hshd) : \E i \in DOMAIN rows :
              /\ \A c \in Range(df_tx.columns) : rows[i][c] = df_tx.rows[t[2]][c]
              /\ \A c \in Range(df_prod.columns) : rows[i][c] = df_prod.rows[t[3]][c]

NumLeq(x, y) == y = NaN \/ (x # NaN /\ x <= y)
TextLeq(a, b) == a = b \/ StrLess(a, b)

\* The key tuple of a is at most that of b, key by key.
TupleLeq(a, b) ==
    \/ a[HSHD_NUM] # b[HSHD_NUM] /\ NumLeq(a[HSHD_NUM], b[HSHD_NUM])
    \/ /\ a[HSHD_NUM] = b[HSHD_NUM]
       /\ \/ a[BASKET_NUM] # b[BASKET_NUM] /\ NumLeq(a[BASKET_NUM], b[BASKET_NUM])
          \/ /\ a[BASKET_NUM] = b[BASKET_NUM]
             /\ \/ a[DATE] # b[DATE] /\ TextLeq(a[DATE], b[DATE])
                \/ /\ a[DATE] = b[DATE]
                   /\ \/ a[PRODUCT_NUM] # b[PRODUCT_NUM]
                         /\ NumLeq(a[PRODUCT_NUM], b[PRODUCT_NUM])
                      \/ /\ a[PRODUCT_NUM] = b[PRODUCT_NUM]
                         /\ \/ a[DEPARTMENT] # b[DEPARTMENT]
                               /\ TextLeq(a[DEPARTMENT], b[DEPARTMENT])
                            \/ /\ a[DEPARTMENT] = b[DEPARTMENT]
                               /\ TextLeq(a[COMMODITY], b[COMMODITY])

\* C3: the rows of the lookup ascend in (HSHD_NUM, BASKET_NUM, DATE,
\* PRODUCT_NUM, DEPARTMENT, COMMODITY): of two adjacent rows the earlier one's
\* tuple is at most the later one's.
C3_LookupSorted ==
    LookedUp => \A i \in 1..(Len(rows) - 1) : TupleLeq(rows[i], rows[i + 1])

\* Two adjacent rows of a lookup equal in the first four keys and of different
\* departments.
C3_Witness ==
    /\ LookedUp
    /\ \E i \in 1..(Len(rows) - 1) :
          /\ \A c \in {HSHD_NUM, BASKET_NUM, DATE, PRODUCT_NUM} : rows[i][c] = rows[i + 1][c]
          /\ rows[i][DEPARTMENT] # rows[i + 1][DEPARTMENT]

\* The number the counter holds for a pair, 0 for a pair that is no key.
Counted(pair) ==
    IF \E k \in DOMAIN pair_counter : pair_counter[k].pair = pair
    THEN pair_counter[CHOOSE k \in DOMAIN pair_counter : pair_counter[k].pair = pair].n
    ELSE 0

\* The baskets, each one (HSHD_NUM, BASKET_NUM), that hold a row of commodity
\* A and a row of commodity B.
BasketsWithBoth(A, B) ==
    {key \in {<<merged.rows[i][HSHD_NUM], merged.rows[i][BASKET_NUM]>> :
                 i \in DOMAIN merged.rows} :
        /\ key[1] # NaN /\ key[2] # NaN
        /\ \E i \in DOMAIN merged.rows :
              /\ merged.rows[i][HSHD_NUM] = key[1] /\ merged.rows[i][BASKET_NUM] = key[2]
              /\ merged.rows[i][COMMODITY] = A
        /\ \E j \in DOMAIN merged.rows :
              /\ merged.rows[j][HSHD_NUM] = key[1] /\ merged.rows[j][BASKET_NUM] = key[2]
              /\ merged.rows[j][COMMODITY] = B}

\* C4: after the scan, for commodities A < B the counter's number for (A, B)
\* is the number of baskets with a row of A and a row of B, whatever the order
\* and the multiplicity of the commodities in a basket; every key is a pair
\* (A, B) with A < B, and is a key once.
C4_PairCounts ==
    Dashboarded =>
        LET coms == {merged.rows[i][COMMODITY] : i \in DOMAIN merged.rows}
        IN  /\ \A A \in coms, B \in coms :
                  StrLess(A, B) => Counted(<<A, B>>) = Cardinality(BasketsWithBoth(A, B))
            /\ \A k \in DOMAIN pair_counter :
                  /\ StrLess(pair_counter[k].pair[1], pair_counter[k].pair[2])
                  /\ pair_counter[k].pair[1] \in coms /\ pair_counter[k].pair[2] \in coms
                  /\ \A l \in DOMAIN pair_counter :
                        pair_counter[l].pair = pair_counter[k].pair => l = k

\* A scan that counted a pair in a basket that holds one commodity twice.
C4_Witness ==
    /\ Dashboarded
    /\ \E k \in DOMAIN pair_counter : \E i \in DOMAIN merged.rows, j \in DOMAIN merged.rows :
          /\ i # j
          /\ merged.rows[i][HSHD_NUM] = merged.rows[j][HSHD_NUM]
          /\ merged.rows[i][HSHD_NUM] # NaN
          /\ merged.rows[i][BASKET_NUM] = merged.rows[j][BASKET_NUM]
          /\ merged.rows[i][COMMODITY] = merged.rows[j][COMMODITY]
          /\ merged.rows[i][COMMODITY] = pair_counter[k].pair[1]

PairLess(p, q) == StrLess(p[1], q[1]) \/ (p[1] = q[1] /\ StrLess(p[2], q[2]))

\* C5 (stated as claimed; the code violates it): the cross-sell view is the
\* min(5, number of pairs) pairs of the highest counts, by descending count,
\* pairs of one count by ascending pair, at the cut-off too.
C5_TopPairsByCountThenKey ==
    Dashboarded =>
        /\ Len(top_pairs) = (IF Len(pair_counter) < 5 THEN Len(pair_counter) ELSE 5)
        /\ \A i \in DOMAIN top_pairs : \E k \in DOMAIN pair_counter :
              pair_counter[k] = top_pairs[i]
        /\ \A i \in 1..(Len(top_pairs) - 1) :
              \/ top_pairs[i].n > top_pairs[i + 1].n
              \/ /\ top_pairs[i].n = top_pairs[i + 1].n
                 /\ PairLess(top_pairs[i].pair, top_pairs[i + 1].pair)
        /\ \A k \in DOMAIN pair_counter :
              (\A i \in DOMAIN top_pairs : top_pairs[i] # pair_counter[k]) =>
                  \A i \in DOMAIN top_pairs :
                      \/ top_pairs[i].n > pair_counter[k].n
                      \/ /\ top_pairs[i].n = pair_counter[k].n
                         /\ PairLess(top_pairs[i].pair, pair_counter[k].pair)

\* The calendar month of a joined row, for the rows whose date parsed.
Dated == {i \in DOMAIN merged.rows : merged.rows[i][DATE] # NaT}
MonthOf(i) == [y |-> merged.rows[i][DATE].y, m |-> merged.rows[i][DATE].m]

RECURSIVE SpendOver(_)
SpendOver(I) ==
    IF I = {} THEN 0
    ELSE LET i == CHOOSE x \in I : TRUE
         IN  merged.rows[i][SPEND] + SpendOver(I \ {i})

\* C6: the monthly view has one entry per calendar month among the joined rows
\* with a parseable date and no other entry, in ascending order of month; an
\* entry's total is the sum of SPEND over the joined rows of its month; a row
\* whose date is unparseable is in no entry.
C6_MonthlySpend ==
    Dashboarded =>
        /\ {monthly[k].DATE : k \in DOMAIN monthly} = {MonthOf(i) : i \in Dated}
        /\ \A k \in 1..(Len(monthly) - 1) :
              \/ monthly[k].DATE.y < monthly[k + 1].DATE.y
              \/ /\ monthly[k].DATE.y = monthly[k + 1].DATE.y
                 /\ monthly[k].DATE.m < monthly[k + 1].DATE.m
        /\ \A k \in DOMAIN monthly :
              monthly[k].SPEND = SpendOver({i \in Dated : MonthOf(i) = monthly[k].DATE})

\* A monthly view with a month of two rows or more, beside a joined row whose
\* date is unparseable.
C6_Witness ==
    /\ Dashboarded
    /\ \E i \in DOMAIN merged.rows : merged.rows[i][DATE] = NaT
    /\ \E k \in DOMAIN monthly :
          Cardinality({i \in Dated : MonthOf(i) = monthly[k].DATE}) >= 2

\* The number of joined rows of a commodity, and its first row.
RowsOf(c) == {i \in DOMAIN merged.rows : merged.rows[i][COMMODITY] = c}
FirstRowOf(c) == CHOOSE i \in RowsOf(c) : \A j \in RowsOf(c) : i <= j
Outranks(c, d) ==
    \/ Cardinality(RowsOf(c)) > Cardinality(RowsOf(d))
    \/ Cardinality(RowsOf(c)) = Cardinality(RowsOf(d)) /\ FirstRowOf(c) < FirstRowOf(d)

\* C7 (stated as claimed; the code violates it): the trend takes the 5
\* commodities of the most joined rows (of one count: the first met first);
\* its pivot has the months ascending as rows, exactly those commodities as
\* columns, and in a cell the sum of SPEND of the rows of that month and
\* commodity, 0 when there is none.
C7_TopCommodityPivot ==
    Dashboarded =>
        LET coms == {merged.rows[i][COMMODITY] : i \in DOMAIN merged.rows}
            top == Range(top_commodities)
        IN  /\ Len(top_commodities) = (IF Cardinality(coms) < 5 THEN Cardinality(coms) ELSE 5)
            /\ top \subseteq coms /\ Cardinality(top) = Len(top_commodities)
            /\ \A i \in 1..(Len(top_commodities) - 1) :
                  Outranks(top_commodities[i], top_commodities[i + 1])
            /\ \A c \in top, d \in coms \ top : Outranks(c, d)
            /\ Range(pivot.columns) = top
            /\ \A k \in 1..(Len(pivot.index) - 1) :
                  PeriodLess(pivot.index[k], pivot.index[k + 1])
            /\ Range(pivot.index) =
                  {MonthOf(i) : i \in {j \in Dated : merged.rows[j][COMMODITY] \in top}}
            /\ \A mo \in Range(pivot.index), c \in Range(pivot.columns) :
                  pivot.cell[<<mo, c>>] = SpendOver({i \in Dated :
                      MonthOf(i) = mo /\ merged.rows[i][COMMODITY] = c})

\* The transaction table has been alias-resolved; the product table has.
TxResolved == pc \in {"alias_prod", "coerce", "ready"}
ProdResolved == pc \in {"coerce", "ready"}

\* C8 (stated as claimed; the code violates it): the normalization (strip and
\* upper-case the labels, then resolve the aliases) of a table that is
\* normalized succeeds and gives the same column names: a transaction table
\* whose date column is DATE and a product table with BRAND_TYPE are accepted
\* unchanged.
C8_NormalizeIdempotent ==
    /\ TxResolved =>
          /\ ResolveTxAlias(NormalizeColumns(df_tx)).ok
          /\ ResolveTxAlias(NormalizeColumns(df_tx)).df.columns = df_tx.columns
    /\ ProdResolved =>
          ResolveProdAlias(NormalizeColumns(df_prod)).columns = df_prod.columns
    /\ (pc = "failed" /\ error = "RuntimeError") => ~Has(df_tx, DATE)

\* All three tables are loaded, alias-resolved and key-coerced.
FullyLoaded ==
    /\ df_house.columns # <<>> /\ df_tx.columns # <<>> /\ df_prod.columns # <<>>
    /\ Has(df_tx, DATE) /\ ~Has(df_tx, PURCHASE_) /\ ~Has(df_prod, BRAND_TY)
    /\ Has(df_house, HSHD_NUM) /\ IsNumeric(df_house.dtypes[HSHD_NUM])
    /\ Has(df_tx, HSHD_NUM) /\ IsNumeric(df_tx.dtypes[HSHD_NUM])
    /\ Has(df_tx, PRODUCT_NUM) /\ IsNumeric(df_tx.dtypes[PRODUCT_NUM])
    /\ Has(df_prod, PRODUCT_NUM) /\ IsNumeric(df_prod.dtypes[PRODUCT_NUM])

\* A blob does not load, or the transaction file has neither date alias.
StartupMustFail ==
    \/ ~blob.house.ok \/ ~blob.tx.ok \/ ~blob.prod.ok
    \/ \A i \in DOMAIN blob.tx.header :
          Upper(Strip(blob.tx.header[i])) \notin {PURCHASE_, PURCHASE_DATE}

\* C9: a request is served only in the ready state, which is reached only with
\* all three tables loaded, alias-resolved and key-coerced; when a load fails or
\* the transaction table has neither PURCHASE_ nor PURCHASE_DATE, the start-up
\* never gets ready, no request is ever served, and where it stops it has
\* failed with an error.
C9_NoPartialServing ==
    /\ resp # NoResponse => pc = "ready"
    /\ pc = "ready" => FullyLoaded
    /\ StartupMustFail => pc # "ready" /\ resp = NoResponse
    /\ pc = "failed" => error # "" /\ resp = NoResponse
    /\ (StartupMustFail /\ ~ENABLED Next) => pc = "failed"

\* A lookup served after a start-up that went through.
C9_Witness == pc = "ready" /\ LookedUp /\ rows # <<>> /\ ~StartupMustFail

\* C10: once the load has finished no step changes a table: the columns, the
\* dtypes and the rows of households, transactions and products stay as they
\* were, through every sequence of dashboard and lookup requests.
C10_TablesFrozen == [][pc = "ready" => tables' = tables]_vars

\* A dashboard whose joined table holds parsed dates while the transactions
\* hold the text.
C10_Witness ==
    /\ pc = "ready" /\ Dashboarded /\ merged.rows # <<>>
    /\ merged.dtypes[DATE] = "datetime64" /\ df_tx.dtypes[DATE] = "object"

====
